---- MODULE Spec2Model ----
(***************************************************************************)
(* Model of app.py: the Flask service that turns a process description     *)
(* into Mermaid flowchart code (POST /generate) and refines it             *)
(* (POST /refine) through one OpenAI chat-completion call per request.     *)
(*                                                                         *)
(* Python strings are sequences of one-character strings.  The backtick    *)
(* and the apostrophe cannot be written inside a TLA+ string literal, so   *)
(* these two characters are the values BACKTICK and APOSTROPHE.            *)
(***************************************************************************)
EXTENDS Integers, Sequences, FiniteSets, TLC

(* ---------------------------- bounds ----------------------------------- *)

\* number of requests the server handles in one run
MaxRequests == 2

\* number of pieces an LLM reply is put together from (sanitization runs)
MaxPieces == 3

(* -------------------------- characters --------------------------------- *)

BACKTICK == "U+0060"

APOSTROPHE == "U+0027"

UPPER ==
    <<"A", "B", "C", "D", "E", "F", "G", "H", "I", "J", "K", "L", "M",
      "N", "O", "P", "Q", "R", "S", "T", "U", "V", "W", "X", "Y", "Z">>

LOWER ==
    <<"a", "b", "c", "d", "e", "f", "g", "h", "i", "j", "k", "l", "m",
      "n", "o", "p", "q", "r", "s", "t", "u", "v", "w", "x", "y", "z">>

(* ----------------------- Python str methods ---------------------------- *)

\* the characters str.strip() removes
IsSpace(c) == c \in {" ", "\t", "\n", "\r", "\f"}

RECURSIVE lstrip(_)
lstrip(s) == IF s # <<>> /\ IsSpace(Head(s)) THEN lstrip(Tail(s)) ELSE s

RECURSIVE rstrip(_)
rstrip(s) ==
    IF s # <<>> /\ IsSpace(s[Len(s)]) THEN rstrip(SubSeq(s, 1, Len(s) - 1)) ELSE s

\* s.strip()
strip(s) == rstrip(lstrip(s))

\* s.startswith(p)
startswith(s, p) == Len(s) >= Len(p) /\ SubSeq(s, 1, Len(p)) = p

\* s.endswith(p)
endswith(s, p) == Len(s) >= Len(p) /\ SubSeq(s, Len(s) - Len(p) + 1, Len(s)) = p

lowerChar(c) ==
    IF \E i \in DOMAIN UPPER : UPPER[i] = c
    THEN LOWER[CHOOSE i \in DOMAIN UPPER : UPPER[i] = c]
    ELSE c

\* s.lower()
lower(s) == [i \in DOMAIN s |-> lowerChar(s[i])]

\* '\n'.join(parts)
RECURSIVE join(_)
join(parts) ==
    IF parts = <<>> THEN <<>>
    ELSE IF Len(parts) = 1 THEN parts[1]
    ELSE parts[1] \o <<"\n">> \o join(Tail(parts))

\* p occurs somewhere in s  (p in s)
Contains(s, p) ==
    \E i \in 1..(Len(s) - Len(p) + 1) : SubSeq(s, i, i + Len(p) - 1) = p

(* ------------------------ string literals ------------------------------ *)

\* the opening fence of a mermaid code block: three backticks and "mermaid"
FENCE_OPEN ==
    <<BACKTICK, BACKTICK, BACKTICK, "m", "e", "r", "m", "a", "i", "d">>

\* the closing fence: three backticks
FENCE_CLOSE ==
    <<BACKTICK, BACKTICK, BACKTICK>>

\* "graph"
GRAPH ==
    <<"g", "r", "a", "p", "h">>

\* "graph TD\\nError[LLM API Key Not Configured]": in the Python literal
\* \\n is a backslash followed by the letter n, not a line break
KEY_NOT_CONFIGURED_DIAGRAM ==
    <<"g", "r", "a", "p", "h", " ", "T", "D", "\\", "n", "E", "r",
      "r", "o", "r", "[", "L", "L", "M", " ", "A", "P", "I", " ",
      "K", "e", "y", " ", "N", "o", "t", " ", "C", "o", "n", "f",
      "i", "g", "u", "r", "e", "d", "]">>

\* "graph TD\\nError[LLM did not return valid Mermaid code]"
INVALID_MERMAID_DIAGRAM ==
    <<"g", "r", "a", "p", "h", " ", "T", "D", "\\", "n", "E", "r",
      "r", "o", "r", "[", "L", "L", "M", " ", "d", "i", "d", " ",
      "n", "o", "t", " ", "r", "e", "t", "u", "r", "n", " ", "v",
      "a", "l", "i", "d", " ", "M", "e", "r", "m", "a", "i", "d",
      " ", "c", "o", "d", "e", "]">>

\* f"graph TD\\nError[Error calling LLM: {e}]", the part before {e}
ERROR_CALLING_PREFIX ==
    <<"g", "r", "a", "p", "h", " ", "T", "D", "\\", "n", "E", "r",
      "r", "o", "r", "[", "E", "r", "r", "o", "r", " ", "c", "a",
      "l", "l", "i", "n", "g", " ", "L", "L", "M", ":", " ">>

\* ... and the part after {e}
ERROR_CALLING_SUFFIX ==
    <<"]">>

\* "\\n%% Error: LLM API Key Not Configured"
REFINE_KEY_SUFFIX ==
    <<"\\", "n", "%", "%", " ", "E", "r", "r", "o", "r", ":", " ",
      "L", "L", "M", " ", "A", "P", "I", " ", "K", "e", "y", " ",
      "N", "o", "t", " ", "C", "o", "n", "f", "i", "g", "u", "r",
      "e", "d">>

\* "\\n%% LLM Error: Invalid refinement response"
REFINE_INVALID_SUFFIX ==
    <<"\\", "n", "%", "%", " ", "L", "L", "M", " ", "E", "r", "r",
      "o", "r", ":", " ", "I", "n", "v", "a", "l", "i", "d", " ",
      "r", "e", "f", "i", "n", "e", "m", "e", "n", "t", " ", "r",
      "e", "s", "p", "o", "n", "s", "e">>

\* f"\\n%% LLM Error: {e}", the part before {e}
REFINE_ERROR_PREFIX ==
    <<"\\", "n", "%", "%", " ", "L", "L", "M", " ", "E", "r", "r",
      "o", "r", ":", " ">>

\* ".docx"
DOT_DOCX ==
    <<".", "d", "o", "c", "x">>

(* --------------------------- values ------------------------------------ *)

\* A Python / JSON value as the handlers see it: a missing key, None, a str
\* (field s) or a number (field n).
JAbsent == [t |-> "absent", s |-> <<>>, n |-> 0]

JNull == [t |-> "null", s |-> <<>>, n |-> 0]

JStr(s) == [t |-> "str", s |-> s, n |-> 0]

JNum(n) == [t |-> "num", s |-> <<>>, n |-> n]

\* Python truth value: None, "" and 0 are false
Truthy(v) == (v.t = "str" /\ v.s # <<>>) \/ (v.t = "num" /\ v.n # 0)

\* dict.get(key): a missing key reads as None
Get(v) == IF v.t = "absent" THEN JNull ELSE v

\* the result of a helper: a returned str, or an exception leaving it
Returned(s) == [raised |-> FALSE, value |-> s]

Raised == [raised |-> TRUE, value |-> <<>>]

\* current_mermaid + "<suffix>": TypeError unless current_mermaid is a str
Add(v, suffix) == IF v.t = "str" THEN Returned(v.s \o suffix) ELSE Raised

(* ------------------------- sanitization -------------------------------- *)

\* lines 69-75 and, word for word, 127-133: strip, drop a leading opening
\* fence and strip, drop a trailing closing fence and strip
Sanitize(content) ==
    LET a == strip(content)
        b == IF startswith(a, FENCE_OPEN)
             THEN strip(SubSeq(a, Len(FENCE_OPEN) + 1, Len(a)))
             ELSE a
    IN  IF endswith(b, FENCE_CLOSE)
        THEN strip(SubSeq(b, 1, Len(b) - Len(FENCE_CLOSE)))
        ELSE b

\* lines 78 and 136: mermaid_code.strip().startswith("graph")
LooksLikeMermaid(code) == startswith(strip(code), GRAPH)
(* ---------------------- inputs of the runs --------------------------- *)

\* str(e) of the AttributeError raised by None.strip() (line 69 / 127)
NONE_STRIP_MESSAGE ==
    <<APOSTROPHE, "N", "o", "n", "e", "T", "y", "p", "e", APOSTROPHE, " ", "o",
      "b", "j", "e", "c", "t", " ", "h", "a", "s", " ", "n", "o",
      " ", "a", "t", "t", "r", "i", "b", "u", "t", "e", " ", APOSTROPHE,
      "s", "t", "r", "i", "p", APOSTROPHE>>

\* str(e) of the TypeError raised by 5 + "..." (line 139)
TYPE_ERROR_MESSAGE ==
    <<"u", "n", "s", "u", "p", "p", "o", "r", "t", "e", "d", " ",
      "o", "p", "e", "r", "a", "n", "d", " ", "t", "y", "p", "e",
      "(", "s", ")", " ", "f", "o", "r", " ", "+", ":", " ", APOSTROPHE,
      "i", "n", "t", APOSTROPHE, " ", "a", "n", "d", " ", APOSTROPHE, "s", "t",
      "r", APOSTROPHE>>

\* str(e) of a provider failure raised by client.chat.completions.create
TIMEOUT_MESSAGE ==
    <<"R", "e", "q", "u", "e", "s", "t", " ", "t", "i", "m", "e",
      "d", " ", "o", "u", "t", ".">>

\* a diagram of two nodes, on two lines
DIAGRAM_AB ==
    <<"g", "r", "a", "p", "h", " ", "T", "D", "\n", "A", "-", "-",
      ">", "B">>

\* a conforming reply without fences
DIAGRAM_ABC ==
    <<"g", "r", "a", "p", "h", " ", "T", "D", "\n", "A", "-", "-",
      ">", "B", "\n", "B", "-", "-", ">", "C">>

\* a conforming reply: DIAGRAM_AB inside a mermaid code block
FENCED_AB ==
    <<BACKTICK, BACKTICK, BACKTICK, "m", "e", "r", "m", "a", "i", "d", "\n", "g",
      "r", "a", "p", "h", " ", "T", "D", "\n", "A", "-", "-", ">",
      "B", "\n", BACKTICK, BACKTICK, BACKTICK>>

\* a reply that is not Mermaid code
SORRY ==
    <<"S", "o", "r", "r", "y">>

\* the graph declaration
GRAPH_TD ==
    <<"g", "r", "a", "p", "h", " ", "T", "D">>

\* filenames of the uploaded file part
FN_DOCX ==
    <<"a", ".", "d", "o", "c", "x">>

FN_UPPER ==
    <<"A", ".", "D", "O", "C", "X">>

FN_TXT ==
    <<"a", ".", "t", "x", "t">>

FN_NOEXT ==
    <<"d", "o", "c", "x">>

FN_PDF ==
    <<"a", ".", "d", "o", "c", "x", ".", "p", "d", "f">>

\* paragraph texts of an uploaded document
STEP_1 ==
    <<"S", "t", "e", "p", " ", "1">>

STEP_2 ==
    <<"S", "t", "e", "p", " ", "2">>

\* a text field with surrounding blanks
HI_TEXT ==
    <<" ", "H", "i", " ">>

\* a refinement instruction
ADD_STEP ==
    <<"a", "d", "d", " ", "C">>

\* request.files['file']: absent, or a part with a filename and a body that
\* python-docx can read (paragraphs) or not
NoFile == [present |-> FALSE, filename |-> <<>>, readable |-> FALSE, paragraphs |-> <<>>]

Filenames == {<<>>, FN_DOCX, FN_UPPER, FN_TXT, FN_NOEXT, FN_PDF}

Documents ==
    { [readable |-> FALSE, paragraphs |-> <<>>],
      [readable |-> TRUE, paragraphs |-> <<>>],
      [readable |-> TRUE, paragraphs |-> << <<" ">>, <<>> >>],
      [readable |-> TRUE, paragraphs |-> <<STEP_1, <<>>, STEP_2>>] }

Files ==
    {NoFile} \cup
    { [present |-> TRUE, filename |-> f, readable |-> d.readable,
       paragraphs |-> d.paragraphs] : f \in Filenames, d \in Documents }

\* request.form['text']
Texts == {JAbsent, JStr(<<>>), JStr(<<" ", "\n">>), JStr(HI_TEXT)}

\* the body of a POST /refine as request.get_json() sees it
NoBody ==
    [kind |-> "none", current_mermaid |-> JAbsent, instruction |-> JAbsent,
     other_keys |-> FALSE]

OtherBody(k) == [NoBody EXCEPT !.kind = k]

\* values of the key current_mermaid; shown is the diagram the page holds
CurrentValues(shown) ==
    {JAbsent, JStr(<<>>), JNum(5), JStr(DIAGRAM_AB), JStr(shown)}

InstructionValues == {JAbsent, JNull, JStr(<<>>), JStr(ADD_STEP)}

Bodies(shown) ==
    { OtherBody(k) : k \in {"not_json", "null", "falsy_value", "truthy_value"} }
    \cup
    { [kind |-> "object", current_mermaid |-> c, instruction |-> i,
       other_keys |-> o] :
        c \in CurrentValues(shown), i \in InstructionValues, o \in BOOLEAN }

\* what awaiting client.chat.completions.create ends in: an exception with
\* str(e) = message, or a response whose choices[0].message.content is content
NoOutcome == [raises |-> FALSE, message |-> <<>>, content |-> JAbsent]

ProviderRaises(m) == [raises |-> TRUE, message |-> m, content |-> JAbsent]

ProviderReplies(c) == [raises |-> FALSE, message |-> <<>>, content |-> c]

Outcomes ==
    {ProviderRaises(TIMEOUT_MESSAGE), ProviderReplies(JNull)} \cup
    { ProviderReplies(JStr(r)) : r \in {SORRY, <<>>, FENCED_AB, DIAGRAM_ABC} }

\* the pieces the replies of the sanitization runs are put together from
Pieces == {FENCE_OPEN, FENCE_CLOSE, GRAPH_TD, <<"\n">>, <<" ">>, <<"A">>}

RECURSIVE ReplyTexts(_)
ReplyTexts(n) ==
    IF n = 0 THEN {<<>>}
    ELSE LET shorter == ReplyTexts(n - 1)
         IN  shorter \cup { p \o q : p \in Pieces, q \in shorter }

(* ----------------------------- state ----------------------------------- *)

VARIABLES
    llm_api_key,    \* TRUE iff os.getenv("OPENAI_API_KEY") is set and not ""
    pc,             \* "idle", or the route that awaits the provider
    request,        \* the request being handled, or handled last
    process_text,   \* generate_flowchart's resolved text (JNull is None)
    response,       \* the response to request, status 0 while there is none
    llm_outcome,    \* how the provider call of this request ended
    client_calls,   \* calls of client.chat.completions.create since start
    log,            \* what the handling of request has done so far
    served,         \* requests accepted since start
    shown_mermaid,  \* the mermaid_code the page received last
    raw_reply,      \* sanitization runs: the reply as the provider sent it
    cleaned,        \* sanitization runs: the reply after the passes so far
    cleaned_once,   \* sanitization runs: the reply after the first pass
    passes          \* sanitization runs: number of passes made

vars ==
    <<llm_api_key, pc, request, process_text, response, llm_outcome,
      client_calls, log, served, shown_mermaid, raw_reply, cleaned,
      cleaned_once, passes>>

serverVars ==
    <<llm_api_key, pc, request, process_text, response, llm_outcome,
      client_calls, log, served, shown_mermaid>>

sanitizeVars == <<raw_reply, cleaned, cleaned_once, passes>>

NoRequest == [route |-> "none", file |-> NoFile, text |-> JAbsent, body |-> NoBody]

NoResponse == [status |-> 0, error |-> "", mermaid_code |-> <<>>]

\* jsonify({"mermaid_code": code})  (status 200)
Ok(code) == [status |-> 200, error |-> "", mermaid_code |-> code]

\* jsonify({"error": message}), status
Error(status, message) == [status |-> status, error |-> message, mermaid_code |-> <<>>]

InLog(e) == \E i \in DOMAIN log : log[i] = e

(* ------------------------ helper functions ----------------------------- *)

\* KeyMissing with the check of lines 43 and 94 left out
KeyMissing_unchecked == FALSE

\* not llm_api_key  (lines 17, 43, 94)
KeyMissing == ~llm_api_key

\* call_llm_for_initial_flowchart without the validation of lines 78-81:
\* whatever the provider replied is returned
call_llm_for_initial_flowchart_unvalidated(text, outcome) ==
    IF KeyMissing THEN Returned(KEY_NOT_CONFIGURED_DIAGRAM)
    ELSE IF outcome.raises
    THEN Returned(ERROR_CALLING_PREFIX \o outcome.message \o ERROR_CALLING_SUFFIX)
    ELSE IF outcome.content.t # "str"
    THEN Returned(ERROR_CALLING_PREFIX \o NONE_STRIP_MESSAGE \o ERROR_CALLING_SUFFIX)
    ELSE Returned(Sanitize(outcome.content.s))

\* call_llm_for_initial_flowchart; outcome is read only past the key check
call_llm_for_initial_flowchart(text, outcome) ==
    IF KeyMissing THEN Returned(KEY_NOT_CONFIGURED_DIAGRAM)
    ELSE IF outcome.raises
    THEN Returned(ERROR_CALLING_PREFIX \o outcome.message \o ERROR_CALLING_SUFFIX)
    ELSE IF outcome.content.t # "str"
    THEN Returned(ERROR_CALLING_PREFIX \o NONE_STRIP_MESSAGE \o ERROR_CALLING_SUFFIX)
    ELSE LET code == Sanitize(outcome.content.s)
         IN  IF ~LooksLikeMermaid(code)
             THEN Returned(INVALID_MERMAID_DIAGRAM)
             ELSE Returned(code)

\* refinement_fallback answering as the initial generation does (line 81):
\* the current diagram is dropped
refinement_fallback_drops_current(current_mermaid) ==
    Returned(INVALID_MERMAID_DIAGRAM)

\* line 139: the fallback for a reply that is not Mermaid code
refinement_fallback(current_mermaid) == Add(current_mermaid, REFINE_INVALID_SUFFIX)

\* lines 143-145: the except clause; its own concatenation is not guarded
refinement_except(current_mermaid, message) ==
    Add(current_mermaid, REFINE_ERROR_PREFIX \o message)

\* call_llm_for_refinement; outcome is read only past the key check
call_llm_for_refinement(current_mermaid, instruction, outcome) ==
    IF KeyMissing THEN Add(current_mermaid, REFINE_KEY_SUFFIX)
    ELSE IF outcome.raises
    THEN refinement_except(current_mermaid, outcome.message)
    ELSE IF outcome.content.t # "str"
    THEN refinement_except(current_mermaid, NONE_STRIP_MESSAGE)
    ELSE LET code == Sanitize(outcome.content.s)
         IN  IF ~LooksLikeMermaid(code)
             THEN LET fallback == refinement_fallback(current_mermaid)
                  IN  IF fallback.raised
                      THEN refinement_except(current_mermaid, TYPE_ERROR_MESSAGE)
                      ELSE fallback
             ELSE Returned(code)

\* extract_text_from_docx: the paragraphs joined, None when Document() raises
extract_text_from_docx(file) ==
    IF file.readable THEN JStr(join(file.paragraphs)) ELSE JNull

\* is_docx testing for ".docx" anywhere in the name
is_docx_anywhere(filename) == Contains(lower(filename), DOT_DOCX)

\* line 184: file.filename.lower().endswith('.docx')
is_docx(filename) == endswith(lower(filename), DOT_DOCX)

\* ResolveInput with a rejected file part falling back to the text field
ResolveInput_text_fallback(file, text) ==
    LET from_text ==
            LET stripped == strip(text.s)
            IN  [process_text |-> JStr(stripped),
                 error_message |->
                     IF stripped = <<>> THEN "Text input cannot be empty." ELSE "",
                 extracted |-> FALSE]
    IN  IF file.present /\ file.filename # <<>> /\ is_docx(file.filename)
        THEN LET extracted_text == extract_text_from_docx(file)
             IN  IF extracted_text = JNull /\ text.t # "absent"
                 THEN [from_text EXCEPT !.extracted = TRUE]
                 ELSE [process_text |-> extracted_text,
                       error_message |->
                           IF extracted_text = JNull
                           THEN "Error extracting text from DOCX file." ELSE "",
                       extracted |-> TRUE]
        ELSE IF text.t # "absent" THEN from_text
        ELSE IF file.present /\ file.filename = <<>>
        THEN [process_text |-> JNull, error_message |-> "No file selected.",
              extracted |-> FALSE]
        ELSE IF file.present
        THEN [process_text |-> JNull,
              error_message |-> "Invalid file type. Please upload a .docx file.",
              extracted |-> FALSE]
        ELSE [process_text |-> JNull, error_message |-> "", extracted |-> FALSE]

\* lines 175-196: process_text and error_message ("" is None) after the
\* if / elif over request.files and request.form
ResolveInput(file, text) ==
    IF file.present
    THEN IF file.filename = <<>>
         THEN [process_text |-> JNull, error_message |-> "No file selected.",
               extracted |-> FALSE]
         ELSE IF is_docx(file.filename)
         THEN LET extracted_text == extract_text_from_docx(file)
              IN  [process_text |-> extracted_text,
                   error_message |->
                       IF extracted_text = JNull
                       THEN "Error extracting text from DOCX file." ELSE "",
                   extracted |-> TRUE]
         ELSE [process_text |-> JNull,
               error_message |-> "Invalid file type. Please upload a .docx file.",
               extracted |-> FALSE]
    ELSE IF text.t # "absent"
    THEN LET stripped == strip(text.s)
         IN  [process_text |-> JStr(stripped),
              error_message |->
                  IF stripped = <<>> THEN "Text input cannot be empty." ELSE "",
              extracted |-> FALSE]
    ELSE [process_text |-> JNull, error_message |-> "", extracted |-> FALSE]

\* line 226: not data
DataFalsy(body) ==
    \/ body.kind \in {"not_json", "null", "falsy_value"}
    \/ /\ body.kind = "object"
       /\ body.current_mermaid.t = "absent"
       /\ body.instruction.t = "absent"
       /\ ~body.other_keys

(* ----------------------------- actions --------------------------------- *)

Init ==
    /\ llm_api_key \in BOOLEAN
    /\ pc = "idle"
    /\ request = NoRequest
    /\ process_text = JNull
    /\ response = NoResponse
    /\ llm_outcome = NoOutcome
    /\ client_calls = 0
    /\ log = <<>>
    /\ served = 0
    /\ shown_mermaid = <<>>
    /\ raw_reply = <<>>
    /\ cleaned = <<>>
    /\ cleaned_once = <<>>
    /\ passes = 0

\* the handler answers: the helper's value as mermaid_code, or the route's
\* except clause when the helper raised
Answer(result, done, message) ==
    /\ pc' = "idle"
    /\ response' = IF result.raised THEN Error(500, message) ELSE Ok(result.value)
    /\ shown_mermaid' = IF result.raised THEN shown_mermaid ELSE result.value
    /\ log' = done \o <<"respond">>

\* the handler answers with an error before the LLM stage
Reject(status, message, done) ==
    /\ pc' = "idle"
    /\ response' = Error(status, message)
    /\ log' = done \o <<"respond">>
    /\ UNCHANGED <<client_calls, shown_mermaid>>

\* the helper awaits client.chat.completions.create
Await(route, done) ==
    /\ pc' = route
    /\ response' = NoResponse
    /\ client_calls' = client_calls + 1
    /\ log' = done \o <<"client_call">>
    /\ UNCHANGED shown_mermaid

\* POST /generate up to the response or the provider call
generate_flowchart(file, text) ==
    /\ pc = "idle"
    /\ served < MaxRequests
    /\ served' = served + 1
    /\ request' = [route |-> "generate", file |-> file, text |-> text, body |-> NoBody]
    /\ llm_outcome' = NoOutcome
    /\ LET resolved == ResolveInput(file, text)
           done == IF resolved.extracted THEN <<"extract">> ELSE <<>>
       IN  /\ process_text' = resolved.process_text
           /\ IF resolved.error_message # ""
              THEN Reject(400, resolved.error_message, done)
              ELSE IF resolved.process_text = JNull
              THEN Reject(400, "No valid input provided (text or .docx file).", done)
              ELSE IF KeyMissing
              THEN /\ Answer(call_llm_for_initial_flowchart(
                                 resolved.process_text.s, NoOutcome),
                             done \o <<"validated", "llm_stage">>,
                             "An unexpected error occurred on the server.")
                   /\ UNCHANGED client_calls
              ELSE Await("generate", done \o <<"validated", "llm_stage">>)
    /\ UNCHANGED <<llm_api_key, sanitizeVars>>

\* POST /generate from the end of the provider call to the response
generate_flowchart_resume(outcome) ==
    /\ pc = "generate"
    /\ llm_outcome' = outcome
    /\ Answer(call_llm_for_initial_flowchart(process_text.s, outcome), log,
              "An unexpected error occurred on the server.")
    /\ UNCHANGED <<llm_api_key, request, process_text, client_calls, served,
                   sanitizeVars>>

\* POST /refine up to the response or the provider call
refine_flowchart(body, get_json_raises) ==
    /\ pc = "idle"
    /\ served < MaxRequests
    /\ served' = served + 1
    /\ request' = [route |-> "refine", file |-> NoFile, text |-> JAbsent, body |-> body]
    /\ llm_outcome' = NoOutcome
    /\ process_text' = JNull
    /\ LET current_mermaid == Get(body.current_mermaid)
           instruction == Get(body.instruction)
           unexpected == "An unexpected error occurred during refinement."
       IN  IF body.kind = "not_json" /\ get_json_raises
           THEN Reject(500, unexpected, <<>>)
           ELSE IF DataFalsy(body)
           THEN Reject(400, "Invalid request data. Expected JSON.", <<>>)
           ELSE IF body.kind # "object"
           THEN Reject(500, unexpected, <<>>)
           ELSE IF ~Truthy(current_mermaid) \/ ~Truthy(instruction)
           THEN Reject(400, "Missing 'current_mermaid' or 'instruction' in request.",
                       <<>>)
           ELSE IF KeyMissing
           THEN /\ Answer(call_llm_for_refinement(current_mermaid, instruction,
                                                  NoOutcome),
                          <<"validated", "llm_stage">>, unexpected)
                /\ UNCHANGED client_calls
           ELSE Await("refine", <<"validated", "llm_stage">>)
    /\ UNCHANGED <<llm_api_key, sanitizeVars>>

\* POST /refine from the end of the provider call to the response
refine_flowchart_resume(outcome) ==
    /\ pc = "refine"
    /\ llm_outcome' = outcome
    /\ Answer(call_llm_for_refinement(Get(request.body.current_mermaid),
                                      Get(request.body.instruction), outcome),
              log, "An unexpected error occurred during refinement.")
    /\ UNCHANGED <<llm_api_key, request, process_text, client_calls, served,
                   sanitizeVars>>

Next ==
    \/ \E file \in Files, text \in Texts : generate_flowchart(file, text)
    \/ \E outcome \in Outcomes : generate_flowchart_resume(outcome)
    \/ \E body \in Bodies(shown_mermaid), raises \in BOOLEAN :
           refine_flowchart(body, raises)
    \/ \E outcome \in Outcomes : refine_flowchart_resume(outcome)

Spec == Init /\ [][Next]_vars

(* ------------------------ sanitization runs ---------------------------- *)

SanInit ==
    /\ llm_api_key = TRUE
    /\ pc = "idle"
    /\ request = NoRequest
    /\ process_text = JNull
    /\ response = NoResponse
    /\ llm_outcome = NoOutcome
    /\ client_calls = 0
    /\ log = <<>>
    /\ served = 0
    /\ shown_mermaid = <<>>
    /\ raw_reply \in ReplyTexts(MaxPieces)
    /\ cleaned = raw_reply
    /\ cleaned_once = raw_reply
    /\ passes = 0

\* the cleanup of lines 69-75 / 127-133 applied to the reply
SanitizeReply ==
    /\ passes = 0
    /\ passes' = 1
    /\ cleaned' = Sanitize(raw_reply)
    /\ cleaned_once' = Sanitize(raw_reply)
    /\ UNCHANGED <<raw_reply, serverVars>>

\* the same cleanup applied to its own result
SanitizeAgain ==
    /\ passes = 1
    /\ passes' = 2
    /\ cleaned' = Sanitize(cleaned)
    /\ UNCHANGED <<raw_reply, cleaned_once, serverVars>>

SanNext == SanitizeReply \/ SanitizeAgain

SanSpec == SanInit /\ [][SanNext]_vars

(* --------------------------- properties -------------------------------- *)

\* the handler of the named route has answered the request in the state
Answered(route) == pc = "idle" /\ request.route = route /\ response.status # 0

\* the provider replied with a str (past the key check)
RepliedStr == llm_api_key /\ ~llm_outcome.raises /\ llm_outcome.content.t = "str"

\* code is current followed by something appended
Annotated(current, code) == startswith(code, current) /\ Len(code) > Len(current)

\* occurrences of an event in the log of the request
Count(e) == Cardinality({i \in DOMAIN log : log[i] = e})

\* C1: whenever call_llm_for_refinement was entered with a str D as
\* current_mermaid (whatever the credential and the provider did, and also
\* when D is the result of an earlier refinement), it returned: the answer
\* is a 200 whose mermaid_code is not empty and is either the sanitized
\* reply, starting with "graph", or D with something appended.
C1_RefinementKeepsDiagram ==
    (Answered("refine") /\ InLog("llm_stage")
        /\ request.body.current_mermaid.t = "str")
    => LET D == request.body.current_mermaid.s
           code == response.mermaid_code
       IN  /\ response.status = 200
           /\ code # <<>>
           /\ \/ /\ RepliedStr
                 /\ code = Sanitize(llm_outcome.content.s)
                 /\ startswith(code, GRAPH)
              \/ Annotated(D, code)

\* C1 witness: the result of a failed refinement was sent back as
\* current_mermaid, the reply was not Mermaid code again, and the answer is
\* that diagram with one more diagnostic
C1_Witness ==
    /\ Answered("refine")
    /\ RepliedStr
    /\ ~startswith(Sanitize(llm_outcome.content.s), GRAPH)
    /\ request.body.current_mermaid.t = "str"
    /\ endswith(request.body.current_mermaid.s, REFINE_INVALID_SUFFIX)
    /\ Annotated(request.body.current_mermaid.s, response.mermaid_code)

\* a degraded diagram: a graph declaration followed by an Error[...] node
IsErrorDiagram(code) ==
    /\ startswith(code, GRAPH_TD)
    /\ Contains(code, <<"E", "r", "r", "o", "r", "[">>)
    /\ code[Len(code)] = "]"

\* C2: whenever call_llm_for_initial_flowchart was entered with a non-empty
\* text, it returned: the answer is a 200 whose mermaid_code is not empty and
\* is the sanitized reply, starting with "graph", or a degraded error
\* diagram; for a reply that is not Mermaid code it is the fixed diagram
\* INVALID_MERMAID_DIAGRAM, which holds nothing of the reply.
C2_InitialAlwaysDiagram ==
    (Answered("generate") /\ InLog("llm_stage") /\ process_text.s # <<>>)
    => LET code == response.mermaid_code
       IN  /\ response.status = 200
           /\ code # <<>>
           /\ \/ /\ RepliedStr
                 /\ code = Sanitize(llm_outcome.content.s)
                 /\ startswith(code, GRAPH)
              \/ IsErrorDiagram(code)
           /\ (RepliedStr /\ ~startswith(Sanitize(llm_outcome.content.s), GRAPH))
              => code = INVALID_MERMAID_DIAGRAM

\* C2 witness: a non-empty text, a reply that is not Mermaid code, and the
\* fixed error diagram as the answer
C2_Witness ==
    /\ Answered("generate")
    /\ process_text.s # <<>>
    /\ RepliedStr
    /\ llm_outcome.content.s = SORRY
    /\ response = Ok(INVALID_MERMAID_DIAGRAM)

\* C3: sanitizing the sanitized reply gives the sanitized reply.
C3_SanitizeIdempotent == passes = 2 => cleaned = cleaned_once

\* C4: the LLM stage of /generate is entered only with a text that is not
\* empty after stripping, and a request whose resolved text is empty or
\* blank is answered with a 400 and no provider call.
C4_NoBlankTextAtLLM ==
    request.route = "generate"
    => /\ InLog("llm_stage")
          => (process_text.t = "str" /\ strip(process_text.s) # <<>>)
       /\ (pc = "idle" /\ process_text.t = "str" /\ strip(process_text.s) = <<>>)
          => (response.status = 400 /\ ~InLog("client_call"))

\* "%% LLM Error: Invalid refinement response", the comment line
INVALID_COMMENT_LINE == SubSeq(REFINE_INVALID_SUFFIX, 3, Len(REFINE_INVALID_SUFFIX))

\* C5: when the sanitized reply to a refinement does not start with
\* "graph", the answer is a 200 whose mermaid_code is current_mermaid, a
\* line break, and the comment line.
C5_DiagnosticOnOwnLine ==
    (Answered("refine") /\ RepliedStr
        /\ ~startswith(Sanitize(llm_outcome.content.s), GRAPH)
        /\ request.body.current_mermaid.t = "str")
    => response =
         Ok(request.body.current_mermaid.s \o <<"\n">> \o INVALID_COMMENT_LINE)

C7_MissingFieldMessage ==
    Answered("refine")
    => /\ (request.body.kind = "object"
            /\ (~Truthy(Get(request.body.current_mermaid))
                \/ ~Truthy(Get(request.body.instruction))))
          => /\ response =
                  Error(400, "Missing 'current_mermaid' or 'instruction' in request.")
             /\ ~InLog("llm_stage")
       /\ response = Error(400, "Invalid request data. Expected JSON.")
          => request.body.kind # "object"

C9_WrongExtensionRejected ==
    (Answered("generate") /\ request.file.present
        /\ request.file.filename # <<>>
        /\ ~endswith(lower(request.file.filename), DOT_DOCX))
    => /\ response = Error(400, "Invalid file type. Please upload a .docx file.")
       /\ ~InLog("extract")
       /\ ~InLog("llm_stage")
       /\ ~InLog("client_call")

\* C9 witness: a readable document named a.docx.pdf, sent with a valid
\* text, was rejected
C9_Witness ==
    /\ Answered("generate")
    /\ request.file.filename = FN_PDF
    /\ request.file.readable
    /\ request.file.paragraphs # <<>>
    /\ request.text = JStr(HI_TEXT)
    /\ response.status = 400

\* C10: in the handling of one request the client is called at most once,
\* after validation and before the response; a request answered 4xx made
\* no call; a request that reached the LLM stage is answered 200 with a
\* mermaid_code.
C10_OneCallThen200 ==
    /\ Count("client_call") <= 1
    /\ \A i \in DOMAIN log :
         log[i] = "client_call"
         => /\ \E j \in 1..(i - 1) : log[j] = "validated"
            /\ \A j \in DOMAIN log : log[j] = "respond" => i < j
    /\ response.status \in 400..499 => Count("client_call") = 0
    /\ (pc = "idle" /\ InLog("llm_stage")) => response.status = 200

====
